---- MODULE Spec2Model ----
(***************************************************************************)
(* Model of src/app.py: the text sanitizer clean_text_for_json, the        *)
(* Agent.process pipeline (strip, brace extraction, sanitation, JSON       *)
(* parse, fallback records, conversation history) and the three-stage      *)
(* MultiAgentSystem.run_workflow orchestrator.                             *)
(*                                                                         *)
(* A text is a sequence of Unicode code points (naturals).  Printable      *)
(* ASCII pieces of a text are written Lit(<<"a", "b">>); other characters  *)
(* are written as their code point.                                       *)
(***************************************************************************)
EXTENDS Integers, Sequences, FiniteSets, TLC

VARIABLES
    cleanIn,    \* argument of the clean_text_for_json call under test
    cleanOut,   \* its return value
    cleanPc,    \* "arg", then "call" once the argument is chosen, then "ret"
    history,    \* Agent.conversation_history of each of the three agents
    pc,         \* position of run_workflow / of the direct caller of process
    task,       \* the task argument of the current run_workflow invocation
    results,    \* the local list `results` of run_workflow
    returned,   \* <<>> , or <<v>> once run_workflow has returned v
    inflight,   \* model calls awaiting their reply: <<>> or <<[agent, input]>>
    calls,      \* model calls made since the current invocation began
    reports,    \* st.error calls made since the current invocation began
    lastOut,    \* <<>> , or <<r>> : the record the latest process call returned
    outcomes,   \* outcomes of the model calls that have ended, same scope as calls
    runs        \* number of invocations begun so far

vars == <<cleanIn, cleanOut, cleanPc, history, pc, task, results, returned,
          inflight, calls, reports, lastOut, outcomes, runs>>

cleanVars == <<cleanIn, cleanOut, cleanPc>>
agentVars == <<history, pc, task, results, returned, inflight, calls,
               reports, lastOut, outcomes, runs>>

-----------------------------------------------------------------------------
(* Text literals *)

\* The printable ASCII characters in code point order, 32 (space) to 126 (~);
\* the grave accent (96) has no string form and is held by a placeholder.
AsciiPrintable ==
    <<" ", "!", "\"", "#", "$", "%", "&", "'", "(", ")", "*", "+", ",", "-",
      ".", "/", "0", "1", "2", "3", "4", "5", "6", "7", "8", "9", ":", ";",
      "<", "=", ">", "?", "@", "A", "B", "C", "D", "E", "F", "G", "H", "I",
      "J", "K", "L", "M", "N", "O", "P", "Q", "R", "S", "T", "U", "V", "W",
      "X", "Y", "Z", "[", "\\", "]", "^", "_", "(grave)", "a", "b", "c", "d", "e",
      "f", "g", "h", "i", "j", "k", "l", "m", "n", "o", "p", "q", "r", "s",
      "t", "u", "v", "w", "x", "y", "z", "{", "|", "}", "~">>

\* ord(c) of a printable ASCII character c.
Ord(c) == 31 + (CHOOSE i \in 1..Len(AsciiPrintable) : AsciiPrintable[i] = c)

\* The text spelled by a tuple of printable ASCII characters.
Lit(cs) == [i \in 1..Len(cs) |-> Ord(cs[i])]

\* The whitespace controls the source names: '\n', '\r', '\t'.
NL == 10
CR == 13
TAB == 9
\* The backslash and the double quote.
BS == Ord("\\")
QUOTE == Ord("\"")

RECURSIVE Concat(_)
\* ''.join(parts) for a sequence of texts.
Concat(parts) ==
    IF parts = <<>> THEN <<>>
    ELSE IF Len(parts) = 1 THEN parts[1]
    ELSE Concat(SubSeq(parts, 1, Len(parts) \div 2))
         \o Concat(SubSeq(parts, (Len(parts) \div 2) + 1, Len(parts)))

\* needle in hay (Python's substring test).
Contains(hay, needle) ==
    \E i \in 0..(Len(hay) - Len(needle)) :
        \A j \in 1..Len(needle) : hay[i + j] = needle[j]

-----------------------------------------------------------------------------
(* clean_text_for_json, src/app.py lines 10-21 *)

\* text.replace(c, repl) for a one-character pattern c.
ReplaceChar(text, c, repl) ==
    Concat([i \in 1..Len(text) |-> IF text[i] = c THEN repl ELSE <<text[i]>>])

\* Line 13's test: ord(char) >= 32 or char in '\n\r\t'.
KeepsChar(ch) == ch >= 32 \/ ch \in {NL, CR, TAB}

\* Line 13: ''.join(char for char in text if ...).
RemoveControl(text) == SelectSeq(text, KeepsChar)

\* Line 16: the three chained replace calls, applied in the source's order.
EscapeWhitespace(text) ==
    ReplaceChar(
        ReplaceChar(
            ReplaceChar(text, NL, <<BS, Ord("n")>>),
            CR, <<BS, Ord("r")>>),
        TAB, <<BS, Ord("t")>>)

\* Line 19's codec: a character encodes to ASCII iff its code point is < 128.
IsAscii(ch) == ch < 128

\* Line 19: text.encode('ascii', 'ignore').decode('ascii').
EncodeAsciiIgnore(text) == SelectSeq(text, IsAscii)

clean_text_for_json(text) ==
    EncodeAsciiIgnore(EscapeWhitespace(RemoveControl(text)))

-----------------------------------------------------------------------------
(* Python values as json.loads builds them.  A value is a record tagged    *)
(* by t: "str" (s: text), "int" (s: its decimal text), "bool" (b),       *)
(* "null", "list" (items) or "dict" (keys, vals: insertion-ordered, keys   *)
(* unique).                                                                *)

PyNone == [t |-> "null"]
PyText(text) == [t |-> "str", s |-> text]
\* int(lexeme), kept as its decimal text str(int(lexeme)): -0 is 0.
PyInt(lexeme) ==
    [t |-> "int",
     s |-> IF lexeme = Lit(<<"-", "0">>) THEN Lit(<<"0">>) ELSE lexeme]
PyBool(b) == [t |-> "bool", b |-> b]
PyList(items) == [t |-> "list", items |-> items]
PyDict(keys, vals) == [t |-> "dict", keys |-> keys, vals |-> vals]
EmptyDict == PyDict(<<>>, <<>>)

DictHas(d, k) == \E i \in 1..Len(d.keys) : d.keys[i] = k

\* d.get(k, default)
DictGet(d, k, default) ==
    IF DictHas(d, k)
    THEN d.vals[CHOOSE i \in 1..Len(d.keys) : d.keys[i] = k]
    ELSE default

\* d[k] = v : an existing key keeps its place, a new key goes last.
DictSet(d, k, v) ==
    IF DictHas(d, k)
    THEN LET at == CHOOSE i \in 1..Len(d.keys) : d.keys[i] = k
         IN  PyDict(d.keys, [d.vals EXCEPT ![at] = v])
    ELSE PyDict(Append(d.keys, k), Append(d.vals, v))

DictKeySet(d) == {d.keys[i] : i \in 1..Len(d.keys)}

-----------------------------------------------------------------------------
(* str.strip() and re.search(r'\{[\s\S]*\}', ...), src/app.py lines 51-56 *)

\* The code points for which str.isspace() holds.
IsSpace(ch) ==
    \/ ch \in 9..13
    \/ ch \in 28..32
    \/ ch \in {133, 160, 5760, 8232, 8233, 8239, 8287, 12288}
    \/ ch \in 8192..8202

\* text.strip()
Strip(text) ==
    LET inner == {i \in 1..Len(text) : ~IsSpace(text[i])}
    IN  IF inner = {} THEN <<>>
        ELSE SubSeq(text,
                    CHOOSE i \in inner : \A j \in inner : i <= j,
                    CHOOSE i \in inner : \A j \in inner : j <= i)

\* re.search(r'\{[\s\S]*\}', text): the leftmost '{' that has a '}' after it,
\* extended greedily to the last '}' of the text.
RegexSearch(text) ==
    LET opens == {i \in 1..Len(text) : text[i] = Ord("{")}
        closes == {i \in 1..Len(text) : text[i] = Ord("}")}
        first == CHOOSE i \in opens : \A j \in opens : i <= j
        last == CHOOSE i \in closes : \A j \in closes : j <= i
    IN  IF opens # {} /\ closes # {} /\ first < last
        THEN [found |-> TRUE, group |-> SubSeq(text, first, last)]
        ELSE [found |-> FALSE, group |-> <<>>]

-----------------------------------------------------------------------------
(* json.loads, called at src/app.py line 63.  The decoder is the standard  *)
(* library's; it is modelled on the grammar it accepts.  Numbers are        *)
(* modelled for integer lexemes: the replies drawn below hold no '.', and   *)
(* no digit followed by 'e' or 'E', nor the words NaN and Infinity.         *)

ParseFail == [ok |-> FALSE, v |-> PyNone, i |-> 0]
ParseOk(v, i) == [ok |-> TRUE, v |-> v, i |-> i]

IsDigit(ch) == ch \in Ord("0")..Ord("9")
IsHex(ch) == IsDigit(ch) \/ ch \in Ord("a")..Ord("f") \/ ch \in Ord("A")..Ord("F")
HexVal(ch) ==
    IF IsDigit(ch) THEN ch - Ord("0")
    ELSE IF ch >= Ord("a") THEN ch - Ord("a") + 10
    ELSE ch - Ord("A") + 10

\* The JSON whitespace: space, tab, newline, carriage return.
IsJsonSpace(ch) == ch \in {Ord(" "), TAB, NL, CR}

RECURSIVE SkipWs(_, _)
\* The first position at or after i that holds no JSON whitespace.
SkipWs(s, i) ==
    IF i <= Len(s) /\ IsJsonSpace(s[i]) THEN SkipWs(s, i + 1) ELSE i

\* s.startswith(word, i)
StartsWithAt(s, i, word) ==
    /\ i + Len(word) - 1 <= Len(s)
    /\ \A k \in 1..Len(word) : s[i + k - 1] = word[k]

\* The character a one-letter backslash escape stands for; 0 if none.
Unescape(ch) ==
    CASE ch = QUOTE -> QUOTE
      [] ch = BS -> BS
      [] ch = Ord("/") -> Ord("/")
      [] ch = Ord("b") -> 8
      [] ch = Ord("f") -> 12
      [] ch = Ord("n") -> NL
      [] ch = Ord("r") -> CR
      [] ch = Ord("t") -> TAB
      [] OTHER -> 0

\* The four hex digits after a backslash-u at position i, as a code point;
\* -1 if they are not four hex digits.
Hex4(s, i) ==
    IF i + 5 <= Len(s) /\ \A k \in 2..5 : IsHex(s[i + k])
    THEN 4096 * HexVal(s[i + 2]) + 256 * HexVal(s[i + 3])
         + 16 * HexVal(s[i + 4]) + HexVal(s[i + 5])
    ELSE -1

RECURSIVE ScanString(_, _, _)

\* A backslash-u escape at position i with code point hi (-1: malformed); a
\* high surrogate followed by an escaped low surrogate lo makes one character.
ScanUnicode(s, i, acc, hi, lo) ==
    IF hi < 0 THEN ParseFail
    ELSE IF hi \in 55296..56319 /\ lo \in 56320..57343
    THEN ScanString(s, i + 12,
             Append(acc, 65536 + (hi - 55296) * 1024 + (lo - 56320)))
    ELSE ScanString(s, i + 6, Append(acc, hi))

\* A one-letter escape at position i standing for the character ch (0: none).
ScanEscape(s, i, acc, ch) ==
    IF ch # 0 THEN ScanString(s, i + 2, Append(acc, ch)) ELSE ParseFail

\* The string literal whose opening quote precedes position i (strict mode:
\* a raw control character ends the parse with an error).
ScanString(s, i, acc) ==
    IF i > Len(s) THEN ParseFail
    ELSE IF s[i] = QUOTE THEN ParseOk(acc, i + 1)
    ELSE IF s[i] < 32 THEN ParseFail
    ELSE IF s[i] # BS THEN ScanString(s, i + 1, Append(acc, s[i]))
    ELSE IF i + 1 > Len(s) THEN ParseFail
    ELSE IF s[i + 1] = Ord("u")
    THEN ScanUnicode(s, i, acc, Hex4(s, i),
             IF i + 7 <= Len(s) /\ s[i + 6] = BS /\ s[i + 7] = Ord("u")
             THEN Hex4(s, i + 6) ELSE -1)
    ELSE ScanEscape(s, i, acc, Unescape(s[i + 1]))

RECURSIVE DigitsEnd(_, _)
\* The first position at or after i that holds no digit.
DigitsEnd(s, i) ==
    IF i <= Len(s) /\ IsDigit(s[i]) THEN DigitsEnd(s, i + 1) ELSE i

\* The match of -?(0|[1-9]\d*) at position i: the position after it, 0 if none.
IntEnd(s, i) ==
    LET d == IF i <= Len(s) /\ s[i] = Ord("-") THEN i + 1 ELSE i
    IN  IF d > Len(s) \/ ~IsDigit(s[d]) THEN 0
        ELSE IF s[d] = Ord("0") THEN d + 1
        ELSE DigitsEnd(s, d)

RECURSIVE ParseValue(_, _), ParseMembers(_, _, _), ParseItems(_, _, _)

\* After the comma that follows a member: only a key's opening quote may
\* come, at position more.
NextMember(s, d, more) ==
    IF more > Len(s) \/ s[more] # QUOTE THEN ParseFail
    ELSE ParseMembers(s, more + 1, d)

\* After a member's value: '}' ends the object, ',' announces a member.
AfterMember(s, d, next) ==
    IF next > Len(s) THEN ParseFail
    ELSE IF s[next] = Ord("}") THEN ParseOk(d, next + 1)
    ELSE IF s[next] # Ord(",") THEN ParseFail
    ELSE NextMember(s, d, SkipWs(s, next + 1))

\* The member k: val is stored (a repeated key overwrites).
MemberValue(s, d, k, val) ==
    IF ~val.ok THEN ParseFail
    ELSE AfterMember(s, DictSet(d, k, val.v), SkipWs(s, val.i))

\* After the key k: a ':' at position colon, then the value.
MemberColon(s, d, k, colon) ==
    IF colon > Len(s) \/ s[colon] # Ord(":") THEN ParseFail
    ELSE MemberValue(s, d, k, ParseValue(s, SkipWs(s, colon + 1)))

MemberKey(s, d, key) ==
    IF ~key.ok THEN ParseFail
    ELSE MemberColon(s, d, key.v, SkipWs(s, key.i))

\* The members of an object, from the position after the opening quote of a
\* key, added to d.
ParseMembers(s, i, d) == MemberKey(s, d, ScanString(s, i, <<>>))

\* After an item: ']' ends the array, ',' announces an item.
AfterItem(s, acc, next) ==
    IF next > Len(s) THEN ParseFail
    ELSE IF s[next] = Ord("]") THEN ParseOk(PyList(acc), next + 1)
    ELSE IF s[next] # Ord(",") THEN ParseFail
    ELSE ParseItems(s, SkipWs(s, next + 1), acc)

ItemValue(s, acc, val) ==
    IF ~val.ok THEN ParseFail
    ELSE AfterItem(s, Append(acc, val.v), SkipWs(s, val.i))

\* The items of an array, from the position of an item, added to acc.
ParseItems(s, i, acc) == ItemValue(s, acc, ParseValue(s, i))

\* A string literal as a value.
StringValue(str) ==
    IF str.ok THEN ParseOk(PyText(str.v), str.i) ELSE ParseFail

\* An object, from the first non-space position j after its '{'.
ObjectValue(s, j) ==
    IF j > Len(s) THEN ParseFail
    ELSE IF s[j] = Ord("}") THEN ParseOk(EmptyDict, j + 1)
    ELSE IF s[j] # QUOTE THEN ParseFail
    ELSE ParseMembers(s, j + 1, EmptyDict)

\* An array, from the first non-space position j after its '['.
ArrayValue(s, j) ==
    IF j > Len(s) THEN ParseFail
    ELSE IF s[j] = Ord("]") THEN ParseOk(PyList(<<>>), j + 1)
    ELSE ParseItems(s, j, <<>>)

\* An integer at position i whose lexeme ends before position end (0: none).
IntValue(s, i, end) ==
    IF end # 0 THEN ParseOk(PyInt(SubSeq(s, i, end - 1)), end) ELSE ParseFail

\* The JSON value that starts at position i.
ParseValue(s, i) ==
    IF i > Len(s) THEN ParseFail
    ELSE IF s[i] = QUOTE THEN StringValue(ScanString(s, i + 1, <<>>))
    ELSE IF s[i] = Ord("{") THEN ObjectValue(s, SkipWs(s, i + 1))
    ELSE IF s[i] = Ord("[") THEN ArrayValue(s, SkipWs(s, i + 1))
    ELSE IF StartsWithAt(s, i, Lit(<<"n", "u", "l", "l">>))
    THEN ParseOk(PyNone, i + 4)
    ELSE IF StartsWithAt(s, i, Lit(<<"t", "r", "u", "e">>))
    THEN ParseOk(PyBool(TRUE), i + 4)
    ELSE IF StartsWithAt(s, i, Lit(<<"f", "a", "l", "s", "e">>))
    THEN ParseOk(PyBool(FALSE), i + 5)
    ELSE IntValue(s, i, IntEnd(s, i))

\* The value val read from s is the whole of s but for trailing whitespace.
WholeText(s, val) ==
    IF val.ok /\ SkipWs(s, val.i) = Len(s) + 1
    THEN [ok |-> TRUE, v |-> val.v]
    ELSE [ok |-> FALSE, v |-> PyNone]

\* json.loads(s): one value between optional whitespace and nothing else;
\* ok is FALSE where json.loads raises JSONDecodeError.
json_loads(s) == WholeText(s, ParseValue(s, SkipWs(s, 1)))

-----------------------------------------------------------------------------
(* str(value), called at src/app.py lines 72-73 on what dict.get returns *)

HexDigits == Lit(<<"0", "1", "2", "3", "4", "5", "6", "7", "8", "9",
                   "a", "b", "c", "d", "e", "f">>)

\* repr's escape of one character inside a string quoted by q.  Code points
\* above 255 are taken as printable.
ReprChar(ch, q) ==
    IF ch = q \/ ch = BS THEN <<BS, ch>>
    ELSE IF ch = TAB THEN <<BS, Ord("t")>>
    ELSE IF ch = NL THEN <<BS, Ord("n")>>
    ELSE IF ch = CR THEN <<BS, Ord("r")>>
    ELSE IF ch < 32 \/ ch \in 127..160 \/ ch = 173
    THEN <<BS, Ord("x"), HexDigits[(ch \div 16) + 1], HexDigits[(ch % 16) + 1]>>
    ELSE <<ch>>

\* repr(text): single quotes, unless the text holds one and no double quote.
ReprText(text) ==
    LET has(c) == \E i \in 1..Len(text) : text[i] = c
        q == IF has(Ord("'")) /\ ~has(QUOTE) THEN QUOTE ELSE Ord("'")
    IN  <<q>> \o Concat([i \in 1..Len(text) |-> ReprChar(text[i], q)]) \o <<q>>

\* ', '.join(parts)
JoinComma(parts) ==
    Concat([i \in 1..Len(parts) |->
               IF i = 1 THEN parts[i] ELSE Lit(<<",", " ">>) \o parts[i]])

RECURSIVE PyRepr(_)
\* repr(v)
PyRepr(v) ==
    CASE v.t = "str" -> ReprText(v.s)
      [] v.t = "int" -> v.s
      [] v.t = "bool" -> IF v.b THEN Lit(<<"T", "r", "u", "e">>)
                         ELSE Lit(<<"F", "a", "l", "s", "e">>)
      [] v.t = "null" -> Lit(<<"N", "o", "n", "e">>)
      [] v.t = "list" ->
            Lit(<<"[">>)
            \o JoinComma([i \in 1..Len(v.items) |-> PyRepr(v.items[i])])
            \o Lit(<<"]">>)
      [] v.t = "dict" ->
            Lit(<<"{">>)
            \o JoinComma([i \in 1..Len(v.keys) |->
                   ReprText(v.keys[i]) \o Lit(<<":", " ">>) \o PyRepr(v.vals[i])])
            \o Lit(<<"}">>)

\* str(v): the text itself for a str, repr(v) for every other type.
PyStr(v) == IF v.t = "str" THEN v.s ELSE PyRepr(v)

\* type(v).__name__
TypeName(v) ==
    CASE v.t = "str" -> Lit(<<"s", "t", "r">>)
      [] v.t = "int" -> Lit(<<"i", "n", "t">>)
      [] v.t = "bool" -> Lit(<<"b", "o", "o", "l">>)
      [] v.t = "null" -> Lit(<<"N", "o", "n", "e", "T", "y", "p", "e">>)
      [] v.t = "list" -> Lit(<<"l", "i", "s", "t">>)
      [] v.t = "dict" -> Lit(<<"d", "i", "c", "t">>)

-----------------------------------------------------------------------------
(* Agent.process, src/app.py lines 37-88 *)

\* The two keys of a structured record.
KeyThoughts == Lit(<<"t", "h", "o", "u", "g", "h", "t", "s">>)
KeyResponse == Lit(<<"r", "e", "s", "p", "o", "n", "s", "e">>)

\* Line 67: "Processed the input and structured the response"
FallbackThoughts ==
    Lit(<<
        "P", "r", "o", "c", "e", "s", "s", "e", "d", " ", "t", "h", "e",
        " ", "i", "n", "p", "u", "t", " ", "a", "n", "d", " ", "s", "t",
        "r", "u", "c", "t", "u", "r", "e", "d", " ", "t", "h", "e", " ",
        "r", "e", "s", "p", "o", "n", "s", "e">>)

\* Line 86: "Error occurred during processing"
ErrorThoughts ==
    Lit(<<
        "E", "r", "r", "o", "r", " ", "o", "c", "c", "u", "r", "r", "e",
        "d", " ", "d", "u", "r", "i", "n", "g", " ", "p", "r", "o", "c",
        "e", "s", "s", "i", "n", "g">>)

\* As ErrorResponse, with the description left out of the message.
ErrorResponseWithoutDescription(desc) ==
    Lit(<<"I", " ", "e", "n", "c", "o", "u", "n", "t", "e", "r", "e", "d", " ",
          "a", "n", " ", "e", "r", "r", "o", "r", ".">>)

\* Line 87: f"I encountered an error while processing the input: {str(e)}.
\* Please try rephrasing your request."
ErrorResponse(desc) ==
    Lit(<<
        "I", " ", "e", "n", "c", "o", "u", "n", "t", "e", "r", "e", "d",
        " ", "a", "n", " ", "e", "r", "r", "o", "r", " ", "w", "h", "i",
        "l", "e", " ", "p", "r", "o", "c", "e", "s", "s", "i", "n", "g",
        " ", "t", "h", "e", " ", "i", "n", "p", "u", "t", ":", " ">>)
    \o desc \o
    Lit(<<
        ".", " ", "P", "l", "e", "a", "s", "e", " ", "t", "r", "y", " ",
        "r", "e", "p", "h", "r", "a", "s", "i", "n", "g", " ", "y", "o",
        "u", "r", " ", "r", "e", "q", "u", "e", "s", "t", ".">>)

\* Line 83: f"Processing error: {str(e)}"
ProcessingErrorReport(desc) ==
    Lit(<<
        "P", "r", "o", "c", "e", "s", "s", "i", "n", "g", " ", "e", "r",
        "r", "o", "r", ":", " ">>) \o desc

\* str(e) of the AttributeError that v.get raises when v is no dict.
AttributeErrorText(v) ==
    Lit(<<"'">>) \o TypeName(v) \o
    Lit(<<
        "'", " ", "o", "b", "j", "e", "c", "t", " ", "h", "a", "s", " ",
        "n", "o", " ", "a", "t", "t", "r", "i", "b", "u", "t", "e", " ",
        "'", "g", "e", "t", "'">>)

\* The record of two texts.
Record(thoughts, response) ==
    PyDict(<<KeyThoughts, KeyResponse>>, <<PyText(thoughts), PyText(response)>>)

\* Lines 82-88: the handler's body, given str(e).  Nothing is appended to
\* the history.
ExceptBranch(desc) ==
    [raised |-> FALSE,
     desc |-> <<>>,
     record |-> Record(ErrorThoughts, ErrorResponse(desc)),
     appended |-> <<>>,
     reported |-> <<ProcessingErrorReport(desc)>>]

\* An exception that leaves process: no record, no entry, no report.
Propagate(desc) ==
    [raised |-> TRUE,
     desc |-> desc,
     record |-> EmptyDict,
     appended |-> <<>>,
     reported |-> <<>>]

\* As CaughtByProcess, had line 82 named the model call's error class only.
CaughtOnlyModelCallError(class) == class = "ModelCallError"

\* Line 82: `except Exception` catches the exceptions raised in lines 39-80:
\* the AttributeError of line 72 and the faults of the model call.
CaughtByProcess(class) == class \in {"AttributeError", "ModelCallError"}

\* An exception of `class` raised in lines 39-80 with str(e) = desc.
RaiseInProcess(class, desc) ==
    IF CaughtByProcess(class) THEN ExceptBranch(desc) ELSE Propagate(desc)

\* Lines 72-73: response_json[key] = clean_text_for_json(str(response_json.get(key, ""))).
CleanField(response_json, key) ==
    DictSet(response_json, key,
            PyText(clean_text_for_json(
                PyStr(DictGet(response_json, key, PyText(<<>>))))))

\* Lines 64-69: the parsed value, or the synthesized record when json.loads
\* raised JSONDecodeError.
OrFallback(parsed, cleaned_text) ==
    IF parsed.ok THEN parsed.v ELSE Record(FallbackThoughts, cleaned_text)

\* Lines 61-69.
ParseOrFallback(cleaned_text) ==
    OrFallback(json_loads(cleaned_text), cleaned_text)

\* The brace span if the regex found one, else the whole text.
Candidate(json_match, response_text) ==
    IF json_match.found THEN json_match.group ELSE response_text

\* Lines 53-59: the candidate, cleaned.
CleanedCandidate(response_text) ==
    clean_text_for_json(Candidate(RegexSearch(response_text), response_text))

\* Lines 75-80: the history entry and the returned record.
AppendAndReturn(name, response_json) ==
    [raised |-> FALSE,
     desc |-> <<>>,
     record |-> response_json,
     appended |-> <<[role |-> name,
                     content |-> DictGet(response_json, KeyResponse, PyNone).s]>>,
     reported |-> <<>>]

\* Lines 71-88 on response_json.  A parsed value that is no dict has no get:
\* line 72 raises AttributeError, which line 82 catches.
StructureResponse(name, response_json) ==
    IF response_json.t # "dict"
    THEN RaiseInProcess("AttributeError", AttributeErrorText(response_json))
    ELSE AppendAndReturn(name,
             CleanField(CleanField(response_json, KeyThoughts), KeyResponse))

\* Lines 51-80 for an agent called `name` whose model call returned `reply`.
ProcessReply(name, reply) ==
    StructureResponse(name, ParseOrFallback(CleanedCandidate(Strip(reply))))

\* The outcome of the model call of line 39: a reply, or a raised exception.
Reply(text) == [kind |-> "reply", text |-> text]
Fault(desc) == [kind |-> "fault", text |-> desc]

\* Agent.process after its model call ended with `outcome`.
Process(name, outcome) ==
    IF outcome.kind = "reply"
    THEN ProcessReply(name, outcome.text)
    ELSE RaiseInProcess("ModelCallError", outcome.text)

-----------------------------------------------------------------------------
(* MultiAgentSystem, src/app.py lines 90-132 *)

\* Lines 93-97: the keys of self.agents, and the name each Agent is built with.
AgentKeys == {"researcher", "writer", "critic"}
AgentName(key) ==
    CASE key = "researcher" -> "Researcher"
      [] key = "writer" -> "Writer"
      [] key = "critic" -> "Critic"

\* Line 107: f"Analyze this topic and provide key points: {task}"
ResearchInput(t) ==
    Lit(<<
        "A", "n", "a", "l", "y", "z", "e", " ", "t", "h", "i", "s", " ",
        "t", "o", "p", "i", "c", " ", "a", "n", "d", " ", "p", "r", "o",
        "v", "i", "d", "e", " ", "k", "e", "y", " ", "p", "o", "i", "n",
        "t", "s", ":", " ">>)
    \o t

\* As WriterInput, embedding the task where the response belongs.
WriterInputFromTask(response, t) ==
    Lit(<<"U", "s", "i", "n", "g", " ", "t", "h", "e", "s", "e", " ", "r", "e",
          "s", "e", "a", "r", "c", "h", " ", "p", "o", "i", "n", "t", "s", ":",
          " ">>)
    \o t \o <<NL>> \o t

\* Line 114: f"Using these research points: {research_result['response']}\n
\* Create a well-structured explanation of: {task}"
WriterInput(response, t) ==
    Lit(<<
        "U", "s", "i", "n", "g", " ", "t", "h", "e", "s", "e", " ", "r",
        "e", "s", "e", "a", "r", "c", "h", " ", "p", "o", "i", "n", "t",
        "s", ":", " ">>)
    \o response \o <<NL>> \o
    Lit(<<
        "C", "r", "e", "a", "t", "e", " ", "a", " ", "w", "e", "l", "l",
        "-", "s", "t", "r", "u", "c", "t", "u", "r", "e", "d", " ", "e",
        "x", "p", "l", "a", "n", "a", "t", "i", "o", "n", " ", "o", "f",
        ":", " ">>)
    \o t

\* Line 121: f"Review this explanation of {task}:\n{write_result['response']}\n
\* Provide specific feedback and suggestions."
CriticInput(response, t) ==
    Lit(<<
        "R", "e", "v", "i", "e", "w", " ", "t", "h", "i", "s", " ", "e",
        "x", "p", "l", "a", "n", "a", "t", "i", "o", "n", " ", "o", "f", " ">>)
    \o t \o Lit(<<":">>) \o <<NL>> \o response \o <<NL>> \o
    Lit(<<
        "P", "r", "o", "v", "i", "d", "e", " ", "s", "p", "e", "c", "i",
        "f", "i", "c", " ", "f", "e", "e", "d", "b", "a", "c", "k", " ",
        "a", "n", "d", " ", "s", "u", "g", "g", "e", "s", "t", "i", "o",
        "n", "s", ".">>)

\* Line 129: f"Workflow error: {str(e)}"
WorkflowErrorPrefix ==
    Lit(<<"W", "o", "r", "k", "f", "l", "o", "w", " ", "e", "r", "r", "o", "r", ":", " ">>)
WorkflowErrorReport(desc) == WorkflowErrorPrefix \o desc

\* Lines 106, 113, 120: the order in which the stages call their agents.
StageOrder == <<"researcher", "writer", "critic">>

\* str(e) of the KeyError that record['response'] raises on a missing key.
KeyErrorText == Lit(<<"'", "r", "e", "s", "p", "o", "n", "s", "e", "'">>)

-----------------------------------------------------------------------------
(* Bounds and the inputs drawn within them *)

\* Longest text given to clean_text_for_json on its own.
MaxLen == 3
\* Longest reply drawn character by character.
MaxReplyLen == 3
\* Number of run_workflow invocations on one MultiAgentSystem.
MaxRuns == 2

\* All texts over `alphabet` of length at most n.
Texts(alphabet, n) == UNION {[1..k -> alphabet] : k \in 0..n}

\* A control character, the three whitespace controls, a backslash, a
\* letter, DEL and a non-ASCII letter.
CleanAlphabet == {1, TAB, NL, CR, BS, Ord("n"), 127, 233}

\* The JSON punctuation, a digit, a space, a newline, DEL and a non-ASCII
\* letter.
ReplyAlphabet ==
    {Ord("{"), Ord("}"), Ord("["), Ord("]"), QUOTE, Ord("1"), Ord(" "),
     NL, 127, 233}

\* {"thoughts": "a", "response": "b"}
ReplyObject ==
    Lit(<<
    "{", "\"", "t", "h", "o", "u", "g", "h", "t", "s", "\"", ":", " ",
    "\"", "a", "\"", ",", " ", "\"", "r", "e", "s", "p", "o", "n", "s",
    "e", "\"", ":", " ", "\"", "b", "\"", "}">>)
\* Sure! {"thoughts":"x","response":"y"} Hope that helps!
ReplyWrapped ==
    Lit(<<
    "S", "u", "r", "e", "!", " ", "{", "\"", "t", "h", "o", "u", "g", "h",
    "t", "s", "\"", ":", "\"", "x", "\"", ",", "\"", "r", "e", "s", "p",
    "o", "n", "s", "e", "\"", ":", "\"", "y", "\"", "}", " ", "H", "o",
    "p", "e", " ", "t", "h", "a", "t", " ", "h", "e", "l", "p", "s", "!">>)
\* {"response":"b","x":1}
ReplyExtraKey ==
    Lit(<<
    "{", "\"", "r", "e", "s", "p", "o", "n", "s", "e", "\"", ":", "\"",
    "b", "\"", ",", "\"", "x", "\"", ":", "1", "}">>)
\* {"thoughts":null,"response":[1,"a"]}
ReplyNonText ==
    Lit(<<
    "{", "\"", "t", "h", "o", "u", "g", "h", "t", "s", "\"", ":", "n", "u",
    "l", "l", ",", "\"", "r", "e", "s", "p", "o", "n", "s", "e", "\"", ":",
    "[", "1", ",", "\"", "a", "\"", "]", "}">>)
\* {"response":"a<DEL>\u00e9\u007f<NL>b"} with a raw DEL and a raw newline
ReplyEscapes ==
    Lit(<<
        "{", "\"", "r", "e", "s", "p", "o", "n", "s", "e", "\"", ":", "\"",
        "a">>) \o <<127>> \o
    Lit(<<"\\", "u", "0", "0", "e", "9", "\\", "u", "0", "0", "7", "f">>) \o <<NL>> \o
    Lit(<<"b", "\"", "}">>)
\* [1, 2]
ReplyArray == Lit(<<"[", "1", ",", " ", "2", "]">>)
\* null
ReplyNull == Lit(<<"n", "u", "l", "l">>)
\* No JSON here<DEL>
ReplyProse == Lit(<<"N", "o", " ", "J", "S", "O", "N", " ", "h", "e", "r", "e">>) \o <<127>>

CuratedReplies ==
    {ReplyObject, ReplyWrapped, ReplyExtraKey, ReplyNonText, ReplyEscapes,
     ReplyArray, ReplyNull, ReplyProse}

\* str(e) of the exceptions the collaborators raise: "timeout", and a
\* description holding a newline and a non-ASCII letter.
FaultTimeout == Lit(<<"t", "i", "m", "e", "o", "u", "t">>)
FaultNonAscii == Lit(<<"b", "a", "d">>) \o <<NL, 233>>
Faults == {FaultTimeout, FaultNonAscii}

\* Outcomes of a model call made by process when called directly.
ProcessOutcomes ==
    {Reply(r) : r \in Texts(ReplyAlphabet, MaxReplyLen) \cup CuratedReplies}
    \cup {Fault(e) : e \in Faults}

\* Outcomes of a model call made within run_workflow.
WorkflowOutcomes ==
    {Reply(ReplyObject), Reply(ReplyExtraKey), Reply(ReplyArray),
     Reply(ReplyProse), Fault(FaultNonAscii)}

\* The task texts: "ai" and "{x}".
Tasks == {Lit(<<"a", "i">>), Lit(<<"{", "x", "}">>)}

\* The input texts of a direct process call.
ProcessInputs == {<<>>, Lit(<<"a", "i">>)}

-----------------------------------------------------------------------------
(* The state machines *)

InitClean ==
    /\ cleanIn = <<>>
    /\ cleanOut = <<>>
    /\ cleanPc = "arg"

\* Lines 24-28 and 91-97: three agents with empty histories, nothing running.
InitAgents ==
    /\ history = [a \in AgentKeys |-> <<>>]
    /\ pc = "idle"
    /\ task = <<>>
    /\ results = <<>>
    /\ returned = <<>>
    /\ inflight = <<>>
    /\ calls = <<>>
    /\ reports = <<>>
    /\ lastOut = <<>>
    /\ outcomes = <<>>
    /\ runs = 0

Init == InitClean /\ InitAgents

\* Lines 37-48: process is entered with input_text and awaits the model.
EnterProcess(agent, input_text, awaiting) ==
    /\ inflight' = Append(inflight, [agent |-> agent, input |-> input_text])
    /\ calls' = Append(calls, [agent |-> agent, input |-> input_text])
    /\ pc' = awaiting

\* Lines 51-88: what a process call that ended as `out` says leaves behind in
\* the agent; lastOut' is the record it returned, if it returned.
ProcessEffects(agent, outcome, out) ==
    /\ history' = [history EXCEPT ![agent] = @ \o out.appended]
    /\ lastOut' = IF out.raised THEN <<>> ELSE <<out.record>>
    /\ outcomes' = Append(outcomes, outcome)
    /\ inflight' = Tail(inflight)

\* As Abort, returning the entries accumulated so far.
AbortReturningResults(reported, desc) ==
    /\ reports' = Append(reports \o reported, WorkflowErrorReport(desc))
    /\ returned' = <<results>>
    /\ pc' = "idle"

\* As Abort, reporting the fault once per collaborator call of the handler.
AbortReportingTwice(reported, desc) ==
    /\ reports' = (reports \o reported)
                  \o <<WorkflowErrorReport(desc), WorkflowErrorReport(desc)>>
    /\ returned' = <<(<<>>)>>
    /\ pc' = "idle"

\* Lines 127-130: the handler of an exception raised inside the try block,
\* given str(e): one st.error call, then return [].  `reported` are the
\* reports made earlier in the same step.
Abort(reported, desc) ==
    /\ reports' = Append(reports \o reported, WorkflowErrorReport(desc))
    /\ returned' = <<(<<>>)>>
    /\ pc' = "idle"

\* Lines 99-102: run_workflow is called with a task.
RunWorkflow(t) ==
    /\ pc = "idle"
    /\ runs < MaxRuns
    /\ runs' = runs + 1
    /\ task' = t
    /\ results' = <<>>
    /\ returned' = <<>>
    /\ calls' = <<>>
    /\ reports' = <<>>
    /\ lastOut' = <<>>
    /\ outcomes' = <<>>
    /\ pc' = "research"
    /\ UNCHANGED <<history, inflight>>
    /\ UNCHANGED cleanVars

\* Lines 109, 116, 123: the process call of a stage ended as `out` says; its
\* record is accumulated under the key `agent`, or the exception it raised
\* reaches line 127.
StageEffects(agent, next, outcome, out) ==
    /\ ProcessEffects(agent, outcome, out)
    /\ IF out.raised
       THEN /\ Abort(out.reported, out.desc)
            /\ UNCHANGED results
       ELSE /\ reports' = reports \o out.reported
            /\ results' = Append(results, [agent |-> agent, output |-> out.record])
            /\ pc' = next
            /\ UNCHANGED returned

\* The awaited model call of a stage ends with `outcome`.
StageReturn(agent, awaiting, next, outcome) ==
    /\ pc = awaiting
    /\ inflight # <<>>
    /\ Head(inflight).agent = agent
    /\ StageEffects(agent, next, outcome, Process(AgentName(agent), outcome))
    /\ UNCHANGED <<task, calls, runs>>
    /\ UNCHANGED cleanVars

\* A stage reads record['response'] of the previous stage's record (KeyError
\* if the key is missing), builds its input and calls process.
StageCall(agent, awaiting, record, input) ==
    /\ IF DictHas(record, KeyResponse)
       THEN /\ EnterProcess(agent, input, awaiting)
            /\ UNCHANGED <<returned, reports>>
       ELSE /\ Abort(<<>>, KeyErrorText)
            /\ UNCHANGED <<inflight, calls>>
    /\ UNCHANGED <<history, task, results, lastOut, outcomes, runs>>
    /\ UNCHANGED cleanVars

\* The value of record['response'] formatted into an f-string.
ResponseOf(record) == PyStr(DictGet(record, KeyResponse, PyNone))

\* Lines 105-108: status.write returns and the researcher is called.
ResearchCall ==
    /\ pc = "research"
    /\ EnterProcess("researcher", ResearchInput(task), "await_researcher")
    /\ UNCHANGED <<history, task, results, returned, reports, lastOut,
                   outcomes, runs>>
    /\ UNCHANGED cleanVars

\* Lines 106-109: the researcher returns and its entry is accumulated.
ResearchReturn(outcome) ==
    StageReturn("researcher", "await_researcher", "write", outcome)

\* Lines 112-115: status.write returns and the writer is called.
WritingCall ==
    /\ pc = "write"
    /\ StageCall("writer", "await_writer", results[1].output,
                 WriterInput(ResponseOf(results[1].output), task))

\* Lines 113-116: the writer returns and its entry is accumulated.
WritingReturn(outcome) ==
    StageReturn("writer", "await_writer", "review", outcome)

\* Lines 119-122: status.write returns and the critic is called.
ReviewCall ==
    /\ pc = "review"
    /\ StageCall("critic", "await_critic", results[2].output,
                 CriticInput(ResponseOf(results[2].output), task))

\* Lines 120-123: the critic returns and its entry is accumulated.
ReviewReturn(outcome) ==
    StageReturn("critic", "await_critic", "complete", outcome)

\* Lines 125 and 132: status.update returns and results is returned.
Completed ==
    /\ pc = "complete"
    /\ returned' = <<results>>
    /\ pc' = "idle"
    /\ UNCHANGED <<history, task, results, inflight, calls, reports, lastOut,
                   outcomes, runs>>
    /\ UNCHANGED cleanVars

\* Lines 105, 112, 119, 125: the status.write or status.update call of the
\* current position raises an exception whose str is desc; lines 127-130
\* handle it.
StatusFault(desc) ==
    /\ pc \in {"research", "write", "review", "complete"}
    /\ Abort(<<>>, desc)
    /\ UNCHANGED <<history, task, results, inflight, calls, lastOut,
                   outcomes, runs>>
    /\ UNCHANGED cleanVars

Next ==
    \/ \E t \in Tasks : RunWorkflow(t)
    \/ ResearchCall
    \/ \E o \in WorkflowOutcomes : ResearchReturn(o)
    \/ WritingCall
    \/ \E o \in WorkflowOutcomes : WritingReturn(o)
    \/ ReviewCall
    \/ \E o \in WorkflowOutcomes : ReviewReturn(o)
    \/ Completed
    \/ \E e \in Faults : StatusFault(e)

\* run_workflow invoked up to MaxRuns times on one MultiAgentSystem.
Spec == Init /\ [][Next]_vars

-----------------------------------------------------------------------------
(* Agent.process called directly, once, on any of the three agents *)

\* process(input_text) is called on `agent`.
ProcessCall(agent, input_text) ==
    /\ pc = "idle"
    /\ EnterProcess(agent, input_text, "await_process")
    /\ UNCHANGED <<history, task, results, returned, reports, lastOut,
                   outcomes, runs>>
    /\ UNCHANGED cleanVars

\* What the caller of process sees: its record, or the exception it raised.
CallerEffects(agent, outcome, out) ==
    /\ ProcessEffects(agent, outcome, out)
    /\ reports' = reports \o out.reported
    /\ pc' = IF out.raised THEN "raised" ELSE "returned"

\* The model call ends with `outcome` and process returns to its caller.
ProcessReturn(outcome) ==
    /\ pc = "await_process"
    /\ inflight # <<>>
    /\ CallerEffects(Head(inflight).agent, outcome,
                     Process(AgentName(Head(inflight).agent), outcome))
    /\ UNCHANGED <<task, results, returned, calls, runs>>
    /\ UNCHANGED cleanVars

NextProcess ==
    \/ \E a \in AgentKeys, t \in ProcessInputs : ProcessCall(a, t)
    \/ \E o \in ProcessOutcomes : ProcessReturn(o)

SpecProcess == Init /\ [][NextProcess]_vars

-----------------------------------------------------------------------------
(* clean_text_for_json called on its own *)

\* The caller picks the argument.
CleanArg(text) ==
    /\ cleanPc = "arg"
    /\ cleanIn' = text
    /\ cleanPc' = "call"
    /\ UNCHANGED cleanOut
    /\ UNCHANGED agentVars

\* Lines 10-21: the call returns.
CleanCall ==
    /\ cleanPc = "call"
    /\ cleanOut' = clean_text_for_json(cleanIn)
    /\ cleanPc' = "ret"
    /\ UNCHANGED cleanIn
    /\ UNCHANGED agentVars

NextClean ==
    \/ \E text \in Texts(CleanAlphabet, MaxLen) : CleanArg(text)
    \/ CleanCall

SpecClean == Init /\ [][NextClean]_vars

-----------------------------------------------------------------------------
(* The properties *)

\* r is a record whose 'thoughts' and 'response' are present and are text.
HasTwoTexts(r) ==
    /\ r.t = "dict"
    /\ DictHas(r, KeyThoughts)
    /\ DictHas(r, KeyResponse)
    /\ DictGet(r, KeyThoughts, PyNone).t = "str"
    /\ DictGet(r, KeyResponse, PyNone).t = "str"

\* Every character of text is printable ASCII.
PrintableAscii(text) == \A i \in 1..Len(text) : text[i] \in 32..126

IsWorkflowReport(report) == StartsWithAt(report, 1, WorkflowErrorPrefix)
WorkflowReports == {i \in 1..Len(reports) : IsWorkflowReport(reports[i])}
WorkflowFaulted == WorkflowReports # {}

\* C1: whatever the model call's outcome (any reply text, or a fault),
\* process raises nothing to its caller and returns a record in which
\* 'thoughts' and 'response' are both present and are text.
C1_ProcessReturnsRecord ==
    pc \in {"returned", "raised"} =>
        /\ pc = "returned"
        /\ Len(lastOut) = 1
        /\ HasTwoTexts(lastOut[1])

\* A JSON array reply was answered by a record of two texts.
C1_Witness ==
    /\ pc = "returned"
    /\ outcomes = <<Reply(ReplyArray)>>
    /\ HasTwoTexts(lastOut[1])

\* C2: run_workflow returns the empty sequence or exactly three entries
\* labelled researcher, writer, critic in that order; never one or two.
C2_ThreeOrNone ==
    returned # <<>> =>
        \/ returned[1] = <<>>
        \/ /\ Len(returned[1]) = 3
           /\ \A i \in 1..3 : returned[1][i].agent = StageOrder[i]

\* A run that aborted with two entries accumulated returned none.
C2_Witness ==
    /\ returned = <<(<<>>)>>
    /\ Len(results) = 2

\* C3: a transport fault of the researcher's model call does not abort the
\* run: the researcher's record is accumulated and its 'response' contains
\* the fault's description, the writer is called with an input embedding
\* that text, and a run that meets no fault outside process makes all three
\* calls and returns three entries.
C3_ResearcherFaultDegrades ==
    (Len(outcomes) >= 1 /\ outcomes[1].kind = "fault") =>
        /\ Len(results) >= 1
        /\ HasTwoTexts(results[1].output)
        /\ Contains(ResponseOf(results[1].output), outcomes[1].text)
        /\ Len(calls) >= 2 =>
              /\ calls[2].agent = "writer"
              /\ Contains(calls[2].input, outcomes[1].text)
        /\ (returned # <<>> /\ ~WorkflowFaulted) =>
              /\ Len(returned[1]) = 3
              /\ Len(calls) = 3
              /\ calls[3].agent = "critic"

\* A run whose researcher call faulted returned three entries.
C3_Witness ==
    /\ returned # <<>>
    /\ Len(returned[1]) = 3
    /\ outcomes[1].kind = "fault"
    /\ Len(calls) = 3

\* C4: after a fault raised in run_workflow outside any process call, the
\* run has returned the empty sequence, no model call is in flight or was
\* made beyond the stages already accumulated, and the fault was reported
\* exactly once, as the run's last report.
C4_AbortReportsOnce ==
    WorkflowFaulted =>
        /\ pc = "idle"
        /\ returned = <<(<<>>)>>
        /\ inflight = <<>>
        /\ Len(calls) = Len(results)
        /\ Cardinality(WorkflowReports) = 1
        /\ IsWorkflowReport(reports[Len(reports)])

\* The fault came after the researcher's entry was accumulated and before
\* the writer was called.
C4_Witness ==
    /\ WorkflowFaulted
    /\ Len(results) = 1
    /\ Len(calls) = 1

\* C5: in every record process returns, 'thoughts' and 'response' are
\* sanitized: fixed points of clean_text_for_json holding no control and no
\* non-ASCII character.
C5_FieldsSanitized ==
    pc = "returned" =>
        \A key \in {KeyThoughts, KeyResponse} :
            /\ DictGet(lastOut[1], key, PyNone).t = "str"
            /\ clean_text_for_json(DictGet(lastOut[1], key, PyNone).s)
                   = DictGet(lastOut[1], key, PyNone).s
            /\ PrintableAscii(DictGet(lastOut[1], key, PyNone).s)

\* The cleaned candidate of the reply that process consumed parsed as JSON
\* but not as an object.
ParsedNonObject ==
    /\ outcomes # <<>>
    /\ outcomes[1].kind = "reply"
    /\ json_loads(CleanedCandidate(Strip(outcomes[1].text))).ok
    /\ json_loads(CleanedCandidate(Strip(outcomes[1].text))).v.t # "dict"

\* C6: a reply whose cleaned candidate is valid JSON but no object takes the
\* synthesized-fallback path: thoughts is the fixed fallback text, response
\* is the cleaned candidate, and no error is reported.
C6_NonObjectFallsBack ==
    (pc = "returned" /\ ParsedNonObject) =>
        /\ lastOut[1] = Record(FallbackThoughts,
                               CleanedCandidate(Strip(outcomes[1].text)))
        /\ reports = <<>>

\* C7: a process call whose model call returned a reply appends exactly one
\* entry to its agent's history, last, labelled with the agent's name and
\* holding the returned record's 'response'; nothing else in any history
\* changes.
C7_HistoryAppendsOne ==
    [][(inflight # <<>> /\ inflight' = <<>>
        /\ outcomes'[Len(outcomes')].kind = "reply") =>
           /\ Len(lastOut') = 1
           /\ history' = [history EXCEPT ![Head(inflight).agent] =
                  Append(@, [role |-> AgentName(Head(inflight).agent),
                             content |-> ResponseOf(lastOut'[1])])]]_vars

\* C8: within one run the model is called at most once per stage, in the
\* order researcher, writer, critic; at most one call is in flight; a call
\* is made only when every earlier stage's call has ended and its entry is
\* accumulated; the writer's input embeds the researcher record's
\* 'response' and the critic's input embeds the writer record's 'response'.
C8_SequentialStages ==
    /\ Len(inflight) <= 1
    /\ Len(calls) <= 3
    /\ \A i \in 1..Len(calls) : calls[i].agent = StageOrder[i]
    /\ Len(calls) = Len(outcomes) + Len(inflight)
    /\ Len(results) >= Len(calls) - 1
    /\ Len(calls) >= 2 =>
          Contains(calls[2].input, ResponseOf(results[1].output))
    /\ Len(calls) >= 3 =>
          Contains(calls[3].input, ResponseOf(results[2].output))

\* The critic's call is in flight, after two entries with a response each.
C8_Witness ==
    /\ Len(inflight) = 1
    /\ Len(calls) = 3
    /\ Len(results) = 2
    /\ ResponseOf(results[1].output) # <<>>
    /\ ResponseOf(results[2].output) # <<>>

\* C9: the record process returns has exactly the two fields 'thoughts' and
\* 'response', whatever other keys the parsed reply carried.
C9_ExactlyTwoFields ==
    pc = "returned" => DictKeySet(lastOut[1]) = {KeyThoughts, KeyResponse}

\* C10: clean_text_for_json returns printable ASCII only (code points 32 to
\* 126): control characters, DEL and non-ASCII characters are dropped or,
\* for newline, carriage return and tab, escaped.
C10_PrintableOnly ==
    cleanPc = "ret" => PrintableAscii(cleanOut)

====
